---- MODULE Spec2Model ----
(***************************************************************************)
(* Connection adoption of libwebsockets (lib/core-net/adopt.c).            *)
(*                                                                         *)
(* Each service thread t may be inside one adoption call; the position of  *)
(* the call is th[t].pc and its C locals are the other fields of th[t].    *)
(* The shared state is the wsi table, the per-thread poll tables and       *)
(* locks, the peer counters and context->count_wsi_allocated.              *)
(*                                                                         *)
(* Spec     : one call, service or close at a time.                        *)
(* SpecSMP  : calls, services and closes of different threads interleave   *)
(*            at the granularity of one shared access per step.            *)
(***************************************************************************)
EXTENDS Integers, Sequences, FiniteSets, TLC

\* ---------------------------------------------------------------- bounds

\* context->count_threads
count_threads == 2
\* context->fd_limit_per_thread
fd_limit_per_thread == 2
\* context->ip_limit_wsi (the peer ceiling L)
ip_limit_wsi == 1
\* lws_zalloc() fails once this many wsi are live
MaxWsi == 3
\* distinct remote addresses
NAddrs == 1
\* API calls made in one run
MaxCalls == 3

LWS_NO_FDS_POS == -1

Threads == 0 .. (count_threads - 1)
Slots == 1 .. MaxWsi
Addrs == 1 .. NAddrs

VARIABLES
    th,                     \* per thread: position and locals of its call
    wsi,                    \* struct lws, by slot
    fds,                    \* pt[n].fds[0 .. fds_count-1], the wsi installed
    pt_lock,                \* pt[n] lock: 0 free, else holder thread + 1
    peers,                  \* peer->count_wsi by remote address
    count_wsi_allocated,    \* context->count_wsi_allocated
    servicing,              \* the wsi thread n's poll loop is servicing, 0
                            \* for none, -w once w was freed under it
    ncalls                  \* API calls made so far

vars ==
    <<th, wsi, fds, pt_lock, peers, count_wsi_allocated, servicing, ncalls>>

\* ------------------------------------------------------------ the records

\* A wsi that is not allocated (lws_zalloc'd memory is all zero).
NoWsi ==
    [alive |-> FALSE, tsi |-> 0, position_in_fds_table |-> LWS_NO_FDS_POS,
     parent |-> 0, sibling_list |-> 0, child_list |-> 0, peer |-> 0,
     undergoing_init_from_other_pt |-> FALSE, nonblocking |-> "unset",
     desc |-> FALSE, role |-> FALSE, buflist |-> 0, ah |-> FALSE,
     revents |-> FALSE]

\* A thread outside any call. Besides the C locals (new_wsi, peer, the
\* register reg of the counter's read-modify-write) a call run with rec set
\* keeps a record of itself: the counter before the call (pre), how often
\* the descriptor handed in was closed (closes), how often the initializing
\* flag was cleared (clears), where it failed (failat), whether it took the
\* TLS handoff (tls), what became of the bytes read ahead (rb) and how many
\* readable events it raised and service steps it drove (events, services)
\* and the steps of the pipeline it has taken, in order (trace).
IdleTh ==
    [pc |-> "idle", api |-> "none", sock |-> FALSE, rec |-> FALSE,
     parent |-> 0, addr |-> 0, new_wsi |-> 0, peer |-> 0, reg |-> 0,
     closes |-> 0, clears |-> 0, pre |-> 0, failat |-> "none",
     peer_pre |-> 0, tls |-> FALSE, rb |-> "none", events |-> 0,
     services |-> 0, trace |-> <<>>, ret |-> "none"]

fds_count(n) == Len(fds[n])

Alive == {w \in Slots : wsi[w].alive}

\* The wsi some call in flight still holds a pointer to.
Held == {th[t].new_wsi : t \in Threads} \cup {th[t].parent : t \in Threads}

Min(S) == CHOOSE x \in S : \A y \in S : x <= y

\* ------------------------------------------------------- thread selector

\* A faulty variant of the scan that lets a later thread with an equal count
\* replace the hit.
RECURSIVE IdlestScanLast(_, _, _)
IdlestScanLast(n, lowest, hit) ==
    IF n >= count_threads THEN hit
    ELSE IF fds_count(n) # fd_limit_per_thread - 1
            /\ (lowest = -1 \/ fds_count(n) <= lowest)
         THEN IdlestScanLast(n + 1, fds_count(n), n)
         ELSE IdlestScanLast(n + 1, lowest, hit)

\* lws_get_idlest_tsi: the scan, in index order, with `lowest` and `hit`.
RECURSIVE IdlestScan(_, _, _)
IdlestScan(n, lowest, hit) ==
    IF n >= count_threads THEN hit
    ELSE IF fds_count(n) # fd_limit_per_thread - 1
            /\ (lowest = -1 \/ fds_count(n) < lowest)
         THEN IdlestScan(n + 1, fds_count(n), n)
         ELSE IdlestScan(n + 1, lowest, hit)

\* lowest = -1 stands for the initial ~0 (UINT_MAX): every count is below it.
lws_get_idlest_tsi == IdlestScan(0, -1, -1)

\* ------------------------------------------------------------ poll table

\* __insert_wsi_socket_into_fds refuses once the table holds
\* fd_limit_per_thread entries.
InsertFails(n) == fds_count(n) >= fd_limit_per_thread

\* The table of thread n after wsi w is appended at fds_count.
FdsInsert(w) ==
    [fds EXCEPT ![wsi[w].tsi] = Append(@, w)]

\* __remove_wsi_socket_from_fds: the last entry is moved into the hole.
FdsRemoveSeq(f, p) ==
    IF p + 1 = Len(f) THEN SubSeq(f, 1, Len(f) - 1)
    ELSE [SubSeq(f, 1, Len(f) - 1) EXCEPT ![p + 1] = f[Len(f)]]

FdsRemove(w) ==
    IF wsi[w].position_in_fds_table = LWS_NO_FDS_POS THEN fds
    ELSE [fds EXCEPT ![wsi[w].tsi] =
              FdsRemoveSeq(@, wsi[w].position_in_fds_table)]

\* The wsi moved into the hole by the removal of w, or 0.
FdsMoved(w) ==
    LET f == fds[wsi[w].tsi]
        p == wsi[w].position_in_fds_table
    IN IF p = LWS_NO_FDS_POS \/ p + 1 = Len(f) THEN 0 ELSE f[Len(f)]

\* ------------------------------------------------------ child list walks

\* The members of parent p's child list, following sibling_list from
\* child_list (at most MaxWsi links are followed).
RECURSIVE ListFrom(_, _)
ListFrom(w, k) ==
    IF w = 0 \/ k = 0 THEN <<>>
    ELSE <<w>> \o ListFrom(wsi[w].sibling_list, k - 1)

ChildList(p) == ListFrom(wsi[p].child_list, MaxWsi)

\* ------------------------------------------------- general close and free

\* lws_close_free_wsi(w): out of the poll table, peer counter down, out of
\* the parent's child list, user memory and wsi freed.
WsiAfterClose(w) ==
    LET m == FdsMoved(w)
        p == wsi[w].parent
    IN [x \in Slots |->
          IF x = w THEN NoWsi
          ELSE LET a == IF x = m
                        THEN [wsi[x] EXCEPT !.position_in_fds_table =
                                  wsi[w].position_in_fds_table]
                        ELSE wsi[x]
                   b == IF x = p /\ a.child_list = w
                        THEN [a EXCEPT !.child_list = wsi[w].sibling_list]
                        ELSE a
               IN IF b.sibling_list = w /\ b.parent = p /\ p # 0
                  THEN [b EXCEPT !.sibling_list = wsi[w].sibling_list]
                  ELSE b]

PeersAfterClose(w) ==
    IF wsi[w].peer = 0 THEN peers
    ELSE [peers EXCEPT ![wsi[w].peer] = @ - 1]

\* ------------------------------------------------------------------ Init

Init ==
    /\ th = [t \in Threads |-> IdleTh]
    /\ wsi = [w \in Slots |-> NoWsi]
    /\ fds = [n \in Threads |-> <<>>]
    /\ pt_lock = [n \in Threads |-> 0]
    /\ peers = [a \in Addrs |-> 0]
    /\ count_wsi_allocated = 0
    /\ servicing = [n \in Threads |-> 0]
    /\ ncalls = 0

\* ------------------------------------------------------------ call entry

\* A wsi a caller may name as parent: adopted, installed, not being built.
Parents ==
    {w \in Alive : /\ wsi[w].position_in_fds_table # LWS_NO_FDS_POS
                   /\ ~wsi[w].undergoing_init_from_other_pt
                   /\ \A u \in Threads : th[u].new_wsi # w}

\* Thread t is outside any call and outside its poll loop's service.
Free(t) == th[t].pc = "idle" /\ servicing[t] = 0

\* No thread is inside a call or a service.
NoCall == \A u \in Threads : Free(u)

\* The call's record of where it failed and of k more closes of its
\* descriptor.
Why(t, step) == IF th[t].rec THEN step ELSE "none"

Closed(t, k) == IF th[t].rec THEN th[t].closes + k ELSE 0

\* The call's record of its steps, with one more.
Did(t, step) == IF th[t].rec THEN Append(th[t].trace, step) ELSE <<>>

\* The locals of thread t at the entry of an API call.
Enter(t, api, sock, parent, addr, to, rec) ==
    /\ Free(t)
    /\ ncalls < MaxCalls
    /\ ncalls' = ncalls + 1
    /\ th' = [th EXCEPT ![t] =
                [IdleTh EXCEPT !.pc = to, !.api = api, !.sock = sock,
                               !.parent = parent, !.addr = addr,
                               !.rec = rec,
                               !.pre = IF rec THEN count_wsi_allocated
                                       ELSE 0]]
    /\ UNCHANGED <<wsi, fds, pt_lock, peers, count_wsi_allocated, servicing>>

\* lws_adopt_descriptor_vhost called by the application: a socket (its
\* remote address one of addrs, 0 for none) or a file descriptor, as kinds
\* allows, with or without a parent.
CallAdopt(t, kinds, addrs, rec) ==
    \E sock \in kinds, parent \in Parents \cup {0} :
       \E addr \in (IF sock THEN addrs ELSE {0}) :
          Enter(t, "adopt", sock, parent, addr, "peer", rec)

\* lws_adopt_socket_readbuf / lws_adopt_socket_vhost_readbuf: the inner call
\* is lws_adopt_socket_vhost, a socket with no protocol name and no parent,
\* its remote address one of addrs.
CallAdoptReadbuf(t, addrs, rec) ==
    \E addr \in addrs :
       Enter(t, "readbuf", TRUE, 0, addr, "peer", rec)

\* lws_create_adopt_udp up to the inner call: bind fails on the socket just
\* created, or the socket is handed to lws_adopt_descriptor_vhost. (When
\* getaddrinfo or socket fails there is no socket and nothing to model.)
CallCreateAdoptUdp(t, rec) ==
    \E parent \in Parents \cup {0}, addr \in Addrs \cup {0} :
       \/ /\ addr = 0
          /\ parent = 0
          /\ Enter(t, "udp", TRUE, 0, 0, "udp_bail2", rec)
       \/ Enter(t, "udp", TRUE, parent, addr, "peer", rec)

\* ------------------------------------------------- lws_adopt_descriptor_vhost

\* lws_get_or_create_peer: no record when peer limits are off or the socket
\* has no remote address.
lws_get_or_create_peer(addr) == IF ip_limit_wsi = 0 THEN 0 ELSE addr

\* The ceiling test of lines 126-127.
PeerDenied(peer) ==
    peer # 0 /\ ip_limit_wsi # 0 /\ peers[peer] >= ip_limit_wsi

\* What the peer-denial branch does before it returns NULL.
PeerDeniedReturn(t, peer) ==
    th' = [th EXCEPT ![t].pc = "ret", ![t].ret = "fail",
                     ![t].failat = Why(t, "denied"), ![t].peer = peer,
                     ![t].addr = 0]

\* Step 1, the peer ceiling.
PeerCheck(t) ==
    /\ th[t].pc = "peer"
    /\ LET peer == IF th[t].sock THEN lws_get_or_create_peer(th[t].addr)
                   ELSE 0
       IN IF PeerDenied(peer)
          THEN PeerDeniedReturn(t, peer)
          ELSE th' = [th EXCEPT ![t].pc = "alloc", ![t].peer = peer,
                                ![t].peer_pre = IF th[t].rec /\ peer # 0
                                                THEN peers[peer] ELSE 0,
                                ![t].addr = 0]
    /\ UNCHANGED <<wsi, fds, pt_lock, peers, count_wsi_allocated, servicing,
                   ncalls>>

\* The thread index lws_create_new_server_wsi is given or selects.
AllocTsi(t) ==
    IF th[t].parent # 0 THEN wsi[th[t].parent].tsi ELSE lws_get_idlest_tsi

\* What the caller does when lws_create_new_server_wsi returned NULL.
AllocFailed(t) ==
    th' = [th EXCEPT ![t].pc = "ret", ![t].ret = "fail",
                     ![t].failat = Why(t, "alloc"),
                     ![t].closes = Closed(t, IF th[t].sock THEN 1 ELSE 0)]

\* Step 2: lws_create_new_server_wsi up to the counter increment. lws_zalloc
\* may fail at any time, and does when MaxWsi are live.
Alloc(t) ==
    /\ th[t].pc = "alloc"
    /\ LET n == AllocTsi(t)
           free == Slots \ Alive
       IN \/ /\ n < 0
             /\ AllocFailed(t)
             /\ UNCHANGED wsi
          \/ /\ n >= 0
             /\ AllocFailed(t)
             /\ UNCHANGED wsi
          \/ /\ n >= 0
             /\ free # {}
             /\ wsi' = [wsi EXCEPT ![Min(free)] =
                           [NoWsi EXCEPT !.alive = TRUE, !.tsi = n]]
             /\ th' = [th EXCEPT ![t].pc = "inc_rd",
                                 ![t].new_wsi = Min(free)]
    /\ UNCHANGED <<fds, pt_lock, peers, count_wsi_allocated, servicing, ncalls>>

\* count_wsi_allocated++ is a plain read ...
IncRead(t) ==
    /\ th[t].pc = "inc_rd"
    /\ th' = [th EXCEPT ![t].pc = "inc_wr", ![t].reg = count_wsi_allocated]
    /\ UNCHANGED <<wsi, fds, pt_lock, peers, count_wsi_allocated, servicing,
                   ncalls>>

\* ... and a plain write, with no lock around the two.
IncWrite(t) ==
    /\ th[t].pc = "inc_wr"
    /\ count_wsi_allocated' = th[t].reg + 1
    /\ th' = [th EXCEPT ![t].pc = "peer_add", ![t].reg = 0]
    /\ UNCHANGED <<wsi, fds, pt_lock, peers, servicing, ncalls>>

\* lws_peer_add_wsi, when a peer record was found.
PeerAdd(t) ==
    /\ th[t].pc = "peer_add"
    /\ LET w == th[t].new_wsi
           peer == th[t].peer
       IN /\ peers' = IF peer # 0 THEN [peers EXCEPT ![peer] = @ + 1]
                      ELSE peers
          /\ wsi' = [wsi EXCEPT ![w].peer = peer]
    /\ th' = [th EXCEPT ![t].pc = IF th[t].parent # 0 THEN "link"
                                  ELSE "setup"]
    /\ UNCHANGED <<fds, pt_lock, count_wsi_allocated, servicing, ncalls>>

\* Step 3: new_wsi->parent and new_wsi->sibling_list are set from the
\* parent's list head ...
LinkRead(t) ==
    /\ th[t].pc = "link"
    /\ wsi' = [wsi EXCEPT ![th[t].new_wsi].parent = th[t].parent,
                          ![th[t].new_wsi].sibling_list =
                              wsi[th[t].parent].child_list]
    /\ th' = [th EXCEPT ![t].pc = "link_wr"]
    /\ UNCHANGED <<fds, pt_lock, peers, count_wsi_allocated, servicing, ncalls>>

\* ... and the head is replaced.
LinkWrite(t) ==
    /\ th[t].pc = "link_wr"
    /\ wsi' = [wsi EXCEPT ![th[t].parent].child_list = th[t].new_wsi]
    /\ th' = [th EXCEPT ![t].pc = "setup"]
    /\ UNCHANGED <<fds, pt_lock, peers, count_wsi_allocated, servicing, ncalls>>

\* Whether LWS_ADOPT_ALLOW_SSL can survive the mask of line 200: a socket,
\* the flag given by the caller, TLS enabled on the vhost.
SslChoices(t) ==
    IF th[t].sock /\ th[t].api # "udp" THEN BOOLEAN ELSE {FALSE}

\* The protocol names a caller can pass: lws_adopt_socket_vhost passes none.
ProtChoices(t) ==
    IF th[t].api = "readbuf" THEN {"none"} ELSE {"none", "known", "unknown"}

\* A faulty variant of NonblockOutcomes that lets a socket through with no
\* call of lws_plat_set_nonblocking.
NonblockOutcomesLax(t) == {"set", "skipped"}

\* How a descriptor gets past lines 168-182: lws_plat_set_nonblocking
\* returned 0 ("set"), or, for a file descriptor on a WIN32 build, the call
\* is compiled out ("skipped").
NonblockOutcomes(t) == IF th[t].sock THEN {"set"} ELSE {"set", "skipped"}

\* The wsi table f with the outcome nb recorded for w's descriptor.
SetNonblocking(f, w, nb) == [f EXCEPT ![w].nonblocking = nb]

\* new_wsi after lws_plat_set_nonblocking succeeded and desc was set.
WithDesc(w) == [wsi EXCEPT ![w].desc = TRUE]

\* new_wsi after the role's pre-phase binding as well.
WithRole(w) == [wsi EXCEPT ![w].desc = TRUE, ![w].role = TRUE]

\* A faulty variant of WithInit that forgets the initializing flag.
WithInitUnflagged(w) == [wsi EXCEPT ![w].desc = TRUE, ![w].role = TRUE]

\* new_wsi after the accept hook succeeded and the flag was set.
WithInit(w) ==
    [wsi EXCEPT ![w].desc = TRUE, ![w].role = TRUE,
                ![w].undergoing_init_from_other_pt = TRUE]

\* Steps 4 to 6 and the event loop's accept hook, none of which touches
\* anything but new_wsi and the descriptor: set non-blocking (bail), resolve
\* the protocol name (bail), get user memory (bail), bind the role (bail),
\* accept hook (fail), set the initializing flag, then on to the insertion
\* or to the TLS handoff.
Setup(t) ==
    /\ th[t].pc = "setup"
    /\ LET w == th[t].new_wsi
       IN \/ /\ th' = [th EXCEPT ![t].pc = "bail",
                                   ![t].failat = Why(t, "nonblock")]
             /\ UNCHANGED wsi
          \/ \E nb \in NonblockOutcomes(t) :
                \/ /\ \E prot \in ProtChoices(t) : prot = "unknown"
                   /\ th' = [th EXCEPT ![t].pc = "bail",
                                         ![t].failat = Why(t, "proto")]
                   /\ wsi' = SetNonblocking(WithDesc(w), w, nb)
                \/ /\ \E prot \in ProtChoices(t) : prot = "known"
                   /\ th' = [th EXCEPT ![t].pc = "bail",
                                         ![t].failat = Why(t, "uspace")]
                   /\ wsi' = SetNonblocking(WithDesc(w), w, nb)
                \/ /\ th' = [th EXCEPT ![t].pc = "bail",
                                         ![t].failat = Why(t, "role")]
                   /\ wsi' = SetNonblocking(WithDesc(w), w, nb)
                \/ /\ th' = [th EXCEPT ![t].pc = "fail",
                                         ![t].failat = Why(t, "accept"),
                                         ![t].trace = Did(t, "bind")]
                   /\ wsi' = SetNonblocking(WithRole(w), w, nb)
                \/ /\ \E ssl \in SslChoices(t) :
                         th' = [th EXCEPT ![t].pc = IF ssl THEN "tls"
                                                    ELSE "lock",
                                          ![t].tls = th[t].rec /\ ssl,
                                          ![t].trace = Did(t, "bind")]
                   /\ wsi' = SetNonblocking(WithInit(w), w, nb)
    /\ UNCHANGED <<fds, pt_lock, peers, count_wsi_allocated, servicing, ncalls>>

\* Step 8, non-TLS: lws_pt_lock on the owning thread's pt.
Lock(t) ==
    /\ th[t].pc = "lock"
    /\ pt_lock[wsi[th[t].new_wsi].tsi] = 0
    /\ pt_lock' = [pt_lock EXCEPT ![wsi[th[t].new_wsi].tsi] = t + 1]
    /\ th' = [th EXCEPT ![t].pc = "insert"]
    /\ UNCHANGED <<wsi, fds, peers, count_wsi_allocated, servicing, ncalls>>

\* The wsi table after w went into its thread's poll table.
WsiInserted(w) ==
    [wsi EXCEPT ![w].position_in_fds_table = fds_count(wsi[w].tsi)]

\* A faulty variant of Insert that leaves for fail with the lock held.
InsertKeepsLock(t) ==
    /\ th[t].pc = "insert"
    /\ LET w == th[t].new_wsi
       IN IF InsertFails(wsi[w].tsi)
          THEN /\ th' = [th EXCEPT ![t].pc = "fail",
                                     ![t].failat = Why(t, "insert")]
               /\ UNCHANGED <<wsi, fds, pt_lock>>
          ELSE /\ fds' = FdsInsert(w)
               /\ wsi' = WsiInserted(w)
               /\ th' = [th EXCEPT ![t].pc = "callback",
                                     ![t].trace = Did(t, "insert")]
               /\ pt_lock' = [pt_lock EXCEPT ![wsi[w].tsi] = 0]
    /\ UNCHANGED <<peers, count_wsi_allocated, servicing, ncalls>>

\* __insert_wsi_socket_into_fds, then lws_pt_unlock on either outcome.
Insert(t) ==
    /\ th[t].pc = "insert"
    /\ LET w == th[t].new_wsi
       IN IF InsertFails(wsi[w].tsi)
          THEN /\ th' = [th EXCEPT ![t].pc = "fail",
                                     ![t].failat = Why(t, "insert")]
               /\ UNCHANGED <<wsi, fds>>
          ELSE /\ fds' = FdsInsert(w)
               /\ wsi' = WsiInserted(w)
               /\ th' = [th EXCEPT ![t].pc = "callback",
                                     ![t].trace = Did(t, "insert")]
    /\ pt_lock' = [pt_lock EXCEPT ![wsi[th[t].new_wsi].tsi] = 0]
    /\ UNCHANGED <<peers, count_wsi_allocated, servicing, ncalls>>

\* Step 8, TLS: lws_server_socket_service_ssl is handed the wsi in place of
\* the direct insertion. The negotiation fails or goes on, in either case
\* before or after it has installed the wsi in the poll table under the pt
\* lock; the installation itself fails on a full table.
Tls(t) ==
    /\ th[t].pc = "tls"
    /\ LET w == th[t].new_wsi
       IN \/ /\ \/ th' = [th EXCEPT ![t].pc = "fail",
                                        ![t].failat = Why(t, "tls"),
                                        ![t].trace = Did(t, "tls")]
                \/ th' = [th EXCEPT ![t].pc = "callback",
                                        ![t].trace = Did(t, "tls")]
             /\ UNCHANGED <<wsi, fds>>
          \/ /\ pt_lock[wsi[w].tsi] = 0
             /\ IF InsertFails(wsi[w].tsi)
                THEN /\ th' = [th EXCEPT ![t].pc = "fail",
                                           ![t].failat = Why(t, "tls"),
                                           ![t].trace = Did(t, "tls")]
                     /\ UNCHANGED <<wsi, fds>>
                ELSE /\ fds' = FdsInsert(w)
                     /\ wsi' = WsiInserted(w)
                     /\ \/ th' = [th EXCEPT ![t].pc = "fail",
                                              ![t].failat = Why(t, "tls"),
                                              ![t].trace = Did(t, "tls")]
                        \/ th' = [th EXCEPT ![t].pc = "callback",
                                              ![t].trace = Did(t, "tls")]
    /\ UNCHANGED <<pt_lock, peers, count_wsi_allocated, servicing, ncalls>>

\* A faulty variant of Callback that goes on to the finish-phase binding
\* whatever the callback returned.
CallbackGoesOn(t) ==
    /\ th[t].pc = "callback"
    /\ \/ th' = [th EXCEPT ![t].pc = "finish",
                           ![t].failat = Why(t, "callback"),
                           ![t].trace = Did(t, "notify")]
       \/ th' = [th EXCEPT ![t].pc = "finish", ![t].trace = Did(t, "notify")]
    /\ UNCHANGED <<wsi, fds, pt_lock, peers, count_wsi_allocated, servicing,
                   ncalls>>

\* Step 7: the "new client instantiated" callback (or the role's code).
Callback(t) ==
    /\ th[t].pc = "callback"
    /\ \/ th' = [th EXCEPT ![t].pc = "fail",
                           ![t].failat = Why(t, "callback"),
                           ![t].trace = Did(t, "notify")]
       \/ th' = [th EXCEPT ![t].pc = "finish", ![t].trace = Did(t, "notify")]
    /\ UNCHANGED <<wsi, fds, pt_lock, peers, count_wsi_allocated, servicing,
                   ncalls>>

\* Step 9: lws_role_call_adoption_bind with _LWS_ADOPT_FINISH.
Finish(t) ==
    /\ th[t].pc = "finish"
    /\ th' = [th EXCEPT ![t].pc = "clear_init", ![t].trace = Did(t, "finish")]
    /\ UNCHANGED <<wsi, fds, pt_lock, peers, count_wsi_allocated, servicing,
                   ncalls>>

\* A faulty variant of ClearInit that goes on to the wake with the flag left
\* set.
ClearInitSkipped(t) ==
    /\ th[t].pc = "clear_init"
    /\ th' = [th EXCEPT ![t].pc = "wake"]
    /\ UNCHANGED <<wsi, fds, pt_lock, peers, count_wsi_allocated, servicing,
                   ncalls>>

\* new_wsi->undergoing_init_from_other_pt = 0.
ClearInit(t) ==
    /\ th[t].pc = "clear_init"
    /\ wsi' = [wsi EXCEPT
                 ![th[t].new_wsi].undergoing_init_from_other_pt = FALSE]
    /\ th' = [th EXCEPT ![t].pc = "wake",
                        ![t].clears = IF th[t].rec THEN @ + 1 ELSE 0]
    /\ UNCHANGED <<fds, pt_lock, peers, count_wsi_allocated, servicing, ncalls>>

\* Step 10: lws_cancel_service_pt ends the owning thread's poll wait (the
\* model's poll loops never wait), and the wsi is returned.
Wake(t) ==
    /\ th[t].pc = "wake"
    /\ th' = [th EXCEPT ![t].pc = "ret", ![t].ret = "ok",
                        ![t].trace = Did(t, "wake")]
    /\ UNCHANGED <<wsi, fds, pt_lock, peers, count_wsi_allocated, servicing,
                   ncalls>>

\* How many times lws_close_free_wsi(w) closes w's descriptor.
Closes(w) == IF wsi[w].desc THEN 1 ELSE 0

\* The poll loops' pointers once w is freed: one that pointed to w dangles.
ServicingAfterClose(w) ==
    [n \in Threads |-> IF servicing[n] = w THEN -w ELSE servicing[n]]

\* lws_close_free_wsi(w) as one step of the calling thread; the removal from
\* the poll table takes the pt lock.
CloseFree(w) ==
    /\ wsi[w].position_in_fds_table # LWS_NO_FDS_POS => pt_lock[wsi[w].tsi] = 0
    /\ wsi' = WsiAfterClose(w)
    /\ fds' = FdsRemove(w)
    /\ peers' = PeersAfterClose(w)
    /\ count_wsi_allocated' = count_wsi_allocated - 1
    /\ servicing' = ServicingAfterClose(w)

\* Path B, "fail": the close-and-free entry point, for sockets only.
Fail(t) ==
    /\ th[t].pc = "fail"
    /\ IF th[t].sock
       THEN /\ CloseFree(th[t].new_wsi)
            /\ th' = [th EXCEPT ![t].pc = "ret", ![t].ret = "fail",
                                ![t].trace = Did(t, "fail"),
                                ![t].closes = Closed(t, Closes(th[t].new_wsi))]
       ELSE /\ th' = [th EXCEPT ![t].pc = "ret", ![t].ret = "fail",
                                ![t].trace = Did(t, "fail")]
            /\ UNCHANGED <<wsi, fds, peers, count_wsi_allocated, servicing>>
    /\ UNCHANGED <<pt_lock, ncalls>>

\* Path A, "bail": the parent's list head is overwritten and the user
\* memory freed ...
Bail(t) ==
    /\ th[t].pc = "bail"
    /\ LET w == th[t].new_wsi
           p == th[t].parent
       IN wsi' = [x \in Slots |->
                    IF x = p
                    THEN [wsi[x] EXCEPT !.child_list = wsi[w].sibling_list]
                    ELSE wsi[x]]
    /\ th' = [th EXCEPT ![t].pc = "dec_rd", ![t].trace = Did(t, "bail")]
    /\ UNCHANGED <<fds, pt_lock, peers, count_wsi_allocated, servicing, ncalls>>

\* ... count_wsi_allocated-- is a plain read ...
DecRead(t) ==
    /\ th[t].pc = "dec_rd"
    /\ th' = [th EXCEPT ![t].pc = "dec_wr", ![t].reg = count_wsi_allocated]
    /\ UNCHANGED <<wsi, fds, pt_lock, peers, count_wsi_allocated, servicing,
                   ncalls>>

\* ... and a plain write; then the wsi is unbound from the vhost and freed
\* and compatible_close(fd.sockfd) closes the descriptor.
DecWrite(t) ==
    /\ th[t].pc = "dec_wr"
    /\ count_wsi_allocated' = th[t].reg - 1
    /\ wsi' = [wsi EXCEPT ![th[t].new_wsi] = NoWsi]
    /\ th' = [th EXCEPT ![t].pc = "ret", ![t].ret = "fail", ![t].reg = 0,
                        ![t].closes = Closed(t, 1)]
    /\ UNCHANGED <<fds, pt_lock, peers, servicing, ncalls>>

\* The API call has returned to the application.
Return(t) ==
    /\ \/ th[t].pc = "ret" /\ th[t].api = "adopt"
       \/ th[t].pc = "done"
    /\ th' = [th EXCEPT ![t] = IdleTh]
    /\ UNCHANGED <<wsi, fds, pt_lock, peers, count_wsi_allocated, servicing,
                   ncalls>>

\* ------------------------------------------------------ lws_create_adopt_udp

\* bail2: the socket is closed when no wsi came back.
UdpBail2(t) ==
    /\ \/ th[t].pc = "ret" /\ th[t].api = "udp"
       \/ th[t].pc = "udp_bail2"
    /\ th' = [th EXCEPT ![t].pc = "done",
                        ![t].ret = IF th[t].ret = "ok" THEN "ok" ELSE "fail",
                        ![t].failat = IF th[t].pc = "udp_bail2"
                                      THEN Why(t, "bind") ELSE @,
                        ![t].closes =
                            Closed(t, IF th[t].ret = "ok" THEN 0 ELSE 1)]
    /\ UNCHANGED <<wsi, fds, pt_lock, peers, count_wsi_allocated, servicing,
                   ncalls>>

\* ------------------------------------------------------ adopt_socket_readbuf

\* What becomes of the call's record of the bytes read ahead.
Bytes(t, fate) == IF th[t].rec THEN fate ELSE "none"

\* Lines 322-329: no wsi; no bytes; bytes, and a wsi that is in no poll
\* table, which is returned as it is; or on to the append.
RbCheck(t) ==
    /\ th[t].pc = "ret"
    /\ th[t].api = "readbuf"
    /\ \/ /\ th[t].ret # "ok"
          /\ th' = [th EXCEPT ![t].pc = "done"]
       \/ /\ th[t].ret = "ok"
          /\ th' = [th EXCEPT ![t].pc = "done"]
       \/ /\ th[t].ret = "ok"
          /\ wsi[th[t].new_wsi].position_in_fds_table = LWS_NO_FDS_POS
          /\ th' = [th EXCEPT ![t].pc = "done",
                              ![t].rb = Bytes(t, "dropped")]
       \/ /\ th[t].ret = "ok"
          /\ wsi[th[t].new_wsi].position_in_fds_table # LWS_NO_FDS_POS
          /\ th' = [th EXCEPT ![t].pc = "rb_append"]
    /\ UNCHANGED <<wsi, fds, pt_lock, peers, count_wsi_allocated, servicing,
                   ncalls>>

\* lws_buflist_append_segment, and the wsi joins pt->dll_buflist_owner with
\* its first segment; on failure the wsi is closed and freed.
RbAppend(t) ==
    /\ th[t].pc = "rb_append"
    /\ \/ /\ CloseFree(th[t].new_wsi)
          /\ th' = [th EXCEPT ![t].pc = "done", ![t].ret = "fail",
                              ![t].failat = Why(t, "append"),
                              ![t].closes = Closed(t, Closes(th[t].new_wsi))]
       \/ /\ wsi' = [wsi EXCEPT ![th[t].new_wsi].buflist = @ + 1]
          /\ th' = [th EXCEPT ![t].pc = "rb_ah",
                              ![t].rb = Bytes(t, "queued")]
          /\ UNCHANGED <<fds, peers, count_wsi_allocated, servicing>>
    /\ UNCHANGED <<pt_lock, ncalls>>

\* wsi->http.ah || !lws_header_table_attach(wsi, 0), else the bytes stay
\* queued and the wsi is returned.
RbAh(t) ==
    /\ th[t].pc = "rb_ah"
    /\ \/ /\ wsi' = [wsi EXCEPT ![th[t].new_wsi].ah = TRUE]
          /\ th' = [th EXCEPT ![t].pc = "rb_revents"]
       \/ /\ ~wsi[th[t].new_wsi].ah
          /\ th' = [th EXCEPT ![t].pc = "done"]
          /\ UNCHANGED wsi
    /\ UNCHANGED <<fds, pt_lock, peers, count_wsi_allocated, servicing, ncalls>>

\* pfd->revents |= LWS_POLLIN on the owning thread's poll entry.
RbRevents(t) ==
    /\ th[t].pc = "rb_revents"
    /\ wsi' = [wsi EXCEPT ![th[t].new_wsi].revents = TRUE]
    /\ th' = [th EXCEPT ![t].pc = "rb_service",
                        ![t].events = IF th[t].rec THEN @ + 1 ELSE 0]
    /\ UNCHANGED <<fds, pt_lock, peers, count_wsi_allocated, servicing, ncalls>>

\* One service step on wsi w: the event is taken, the queued bytes are
\* handed to the protocol and the header context is given back.
Serviced(w) ==
    [wsi EXCEPT ![w].revents = FALSE, ![w].buflist = 0, ![w].ah = FALSE]

\* A faulty variant of RbService that returns the wsi although the service
\* step closed it.
RbServiceKeeps(t) ==
    /\ th[t].pc = "rb_service"
    /\ CloseFree(th[t].new_wsi)
    /\ th' = [th EXCEPT ![t].pc = "done",
                        ![t].services = IF th[t].rec THEN @ + 1 ELSE 0]
    /\ UNCHANGED <<pt_lock, ncalls>>

\* lws_service_fd_tsi called by the creating thread; it may close the wsi.
RbService(t) ==
    /\ th[t].pc = "rb_service"
    /\ \/ /\ CloseFree(th[t].new_wsi)
          /\ th' = [th EXCEPT ![t].pc = "done", ![t].ret = "fail",
                              ![t].failat = Why(t, "service"),
                              ![t].services = IF th[t].rec THEN @ + 1 ELSE 0,
                              ![t].closes = Closed(t, Closes(th[t].new_wsi))]
       \/ /\ wsi' = Serviced(th[t].new_wsi)
          /\ th' = [th EXCEPT ![t].pc = "done",
                              ![t].services = IF th[t].rec THEN @ + 1 ELSE 0,
                              ![t].rb = Bytes(t, "delivered")]
          /\ UNCHANGED <<fds, peers, count_wsi_allocated, servicing>>
    /\ UNCHANGED <<pt_lock, ncalls>>

\* ------------------------------------------------- the owning thread's loop

\* Whether thread n's poll loop may act on w: installed in n's table and
\* not marked as still being initialised by another thread.
Actionable(n, w) ==
    /\ wsi[w].alive
    /\ wsi[w].tsi = n
    /\ wsi[w].position_in_fds_table # LWS_NO_FDS_POS
    /\ ~wsi[w].undergoing_init_from_other_pt

\* Thread n's loop starts servicing w.
ServiceBegin(n) ==
    /\ Free(n)
    /\ \E w \in Slots :
          /\ Actionable(n, w)
          /\ servicing' = [servicing EXCEPT ![n] = w]
    /\ UNCHANGED <<th, wsi, fds, pt_lock, peers, count_wsi_allocated, ncalls>>

\* Thread n's loop finishes servicing. When the wsi was freed under it the
\* loop has written through a dangling pointer: the writes hit nothing, or
\* they hit the wsi that now lives in that memory.
ServiceEnd(n) ==
    /\ servicing[n] # 0
    /\ \/ /\ servicing[n] > 0
          /\ wsi' = Serviced(servicing[n])
       \/ /\ servicing[n] < 0
          /\ UNCHANGED wsi
       \/ /\ servicing[n] < 0
          /\ wsi[-servicing[n]].alive
          /\ wsi' = Serviced(-servicing[n])
    /\ servicing' = [servicing EXCEPT ![n] = 0]
    /\ UNCHANGED <<th, fds, pt_lock, peers, count_wsi_allocated, ncalls>>

\* Thread n closes a connection of its own (the peer hung up, a timeout,
\* ...). A wsi a call in flight still points to, or one with children,
\* stays.
Close(n) ==
    /\ Free(n)
    /\ \E w \in Slots :
          /\ Actionable(n, w)
          /\ w \notin Held
          /\ wsi[w].child_list = 0
          /\ CloseFree(w)
    /\ UNCHANGED <<th, pt_lock, ncalls>>

\* ------------------------------------------------------------------ Next

\* The next step of thread t inside lws_adopt_descriptor_vhost.
AdoptStep(t) ==
    \/ PeerCheck(t) \/ Alloc(t) \/ IncRead(t) \/ IncWrite(t) \/ PeerAdd(t)
    \/ LinkRead(t) \/ LinkWrite(t) \/ Setup(t) \/ Lock(t) \/ Insert(t)
    \/ Tls(t) \/ Callback(t) \/ Finish(t) \/ ClearInit(t) \/ Wake(t)
    \/ Fail(t) \/ Bail(t) \/ DecRead(t) \/ DecWrite(t) \/ Return(t)

Step(t) ==
    \/ AdoptStep(t)
    \/ RbCheck(t) \/ RbAppend(t) \/ RbAh(t) \/ RbRevents(t) \/ RbService(t)
    \/ ServiceEnd(t)

\* One at a time: a call, a service or a close starts only when no thread is
\* inside a call or a service.
SoloAdopt(t) == NoCall /\ CallAdopt(t, BOOLEAN, Addrs \cup {0}, TRUE)

SoloAdoptReadbuf(t) == NoCall /\ CallAdoptReadbuf(t, Addrs \cup {0}, TRUE)

SoloCreateAdoptUdp(t) == NoCall /\ CallCreateAdoptUdp(t, TRUE)

SoloService(t) == NoCall /\ ServiceBegin(t)

SoloClose(t) == NoCall /\ Close(t)

Next ==
    \E t \in Threads :
       \/ Step(t) \/ UdpBail2(t)
       \/ SoloAdopt(t) \/ SoloAdoptReadbuf(t) \/ SoloCreateAdoptUdp(t)
       \/ SoloService(t) \/ SoloClose(t)

Spec == Init /\ [][Next]_vars

\* Service threads run concurrently: socket adoptions (direct and with bytes
\* read ahead), the poll loops' services and closes interleave. The peer
\* ceiling is exercised by the direct adoptions; the sockets adopted with
\* bytes read ahead have no peer record. The calls keep no record of
\* themselves.
SmpAdopt(t) == CallAdopt(t, {TRUE}, Addrs \cup {0}, FALSE)

SmpAdoptReadbuf(t) == CallAdoptReadbuf(t, {0}, FALSE)

NextSMP ==
    \E t \in Threads :
       \/ Step(t)
       \/ SmpAdopt(t) \/ SmpAdoptReadbuf(t)
       \/ ServiceBegin(t) \/ Close(t)

SpecSMP == Init /\ [][NextSMP]_vars

\* Concurrent adoptions alone, of sockets with no peer record, each service
\* thread being an OS thread that goes on running: a thread inside
\* lws_adopt_descriptor_vhost that can take its next step does take it.
FairAdopt(t) == CallAdopt(t, {TRUE}, {0}, FALSE)

NextAdopt ==
    \E t \in Threads :
       \/ AdoptStep(t)
       \/ FairAdopt(t)

SpecAdoptFair ==
    /\ Init
    /\ [][NextAdopt]_vars
    /\ \A t \in Threads : WF_vars(AdoptStep(t))

\* ================================================================ claims

\* The failure points of steps 3 to 9, by the unwind path they take.
PathA == {"nonblock", "proto", "uspace", "role"}

PathB == {"accept", "insert", "tls", "callback"}

\* lws_adopt_descriptor_vhost has returned NULL to thread t.
AdoptFailed(t) == th[t].pc = "ret" /\ th[t].ret = "fail"

\* C1: with a peer ceiling L > 0, a socket adoption from an address that
\* already has L live connections is denied: the call fails, creates no
\* wsi, leaves count_wsi_allocated and the peer counter alone and closes
\* the descriptor handed in; and an adoption is denied only at the ceiling.
C1_DeniedClosesDescriptor ==
    \A t \in Threads :
       /\ (th[t].pc = "alloc" /\ th[t].peer # 0)
             => peers[th[t].peer] < ip_limit_wsi
       /\ (th[t].pc = "ret" /\ th[t].failat = "denied")
             => /\ th[t].ret = "fail"
                /\ th[t].new_wsi = 0
                /\ count_wsi_allocated = th[t].pre
                /\ peers[th[t].peer] = ip_limit_wsi
                /\ th[t].closes = 1

\* The denial of C1 happened: the address is at its ceiling, the call
\* returned NULL.
C1_Witness ==
    \E t \in Threads :
       /\ th[t].pc = "ret" /\ th[t].failat = "denied"
       /\ peers[th[t].peer] = ip_limit_wsi

\* C2: after an adopt call that failed at any step from 3 to 9, socket or
\* file descriptor, count_wsi_allocated is back at its value before the call.
C2_CounterRestored ==
    \A t \in Threads :
       (AdoptFailed(t) /\ th[t].failat \in PathA \cup PathB)
          => count_wsi_allocated = th[t].pre

\* C3: after an adopt call that failed at slot allocation or later, on
\* either unwind path, socket or file descriptor, the descriptor handed in
\* has been closed exactly once.
C3_ClosedOnce ==
    \A t \in Threads :
       (AdoptFailed(t) /\ th[t].failat \in {"alloc"} \cup PathA \cup PathB)
          => th[t].closes = 1

\* C4: when lws_create_adopt_udp fails after it created its socket (bind
\* failed, or the inner adopt failed at any step), the socket has been
\* closed exactly once, counting the closes inside adopt; on success it is
\* open.
C4_UdpClosedOnce ==
    \A t \in Threads :
       (th[t].pc = "done" /\ th[t].api = "udp")
          => th[t].closes = IF th[t].ret = "ok" THEN 0 ELSE 1

\* The pcs of a creating call between the insertion (or TLS handoff) and the
\* end of the finish-phase binding, success path and failure path.
Initializing == {"callback", "finish", "fail"}

\* The pcs of a creating call at which w is not yet handed to its thread.
Unfinished == {"setup", "lock", "insert", "tls", "callback", "finish",
               "clear_init", "fail"}

InTable(w) == wsi[w].position_in_fds_table # LWS_NO_FDS_POS

\* C5: a wsi created by thread X for thread Y is never serviced by Y's poll
\* loop while undergoing_init_from_other_pt is set, and the flag is set
\* whenever the wsi is in Y's poll table and its creating call has not yet
\* finished the role's finish-phase binding; hence Y never services a wsi
\* its creator is still initialising. (servicing[n] > 0 is a pointer to a
\* live wsi; one left dangling by a free services no wsi.)
C5_NotServicedWhileInitializing ==
    /\ \A n \in Threads :
          servicing[n] > 0
             => /\ ~wsi[servicing[n]].undergoing_init_from_other_pt
                /\ \A t \in Threads :
                      ~(th[t].new_wsi = servicing[n] /\ th[t].pc \in Unfinished)
    /\ \A t \in Threads :
          (th[t].pc \in Initializing /\ InTable(th[t].new_wsi))
             => wsi[th[t].new_wsi].undergoing_init_from_other_pt

\* Thread X is between insertion and finish on a wsi owned by another
\* thread Y, whose poll loop is servicing one of its other wsi just then.
C5_Witness ==
    \E x \in Threads, y \in Threads :
       /\ x # y
       /\ th[x].pc = "finish"
       /\ wsi[th[x].new_wsi].tsi = y
       /\ InTable(th[x].new_wsi)
       /\ wsi[th[x].new_wsi].undergoing_init_from_other_pt
       /\ servicing[y] > 0

\* C6, as claimed: in a successful adoption the flag is cleared only after
\* step 10, the wake of the owning thread: a call about to wake the owner
\* still has the flag set.
C6_ClearedAfterWake ==
    \A t \in Threads :
       th[t].pc = "wake" => wsi[th[t].new_wsi].undergoing_init_from_other_pt

\* C6, amended: in every successful adoption the flag is cleared exactly
\* once, after the finish-phase binding of step 9 and before the wake of
\* step 10: it is set from the insertion to the end of step 9, clear when
\* the owner is woken and when the call returns the wsi.
C6_ClearedOnceBeforeWake ==
    \A t \in Threads :
       LET w == th[t].new_wsi
       IN /\ th[t].pc \in {"lock", "insert", "tls", "callback", "finish",
                           "clear_init"}
                => (wsi[w].undergoing_init_from_other_pt /\ th[t].clears = 0)
          /\ th[t].pc = "wake"
                => (~wsi[w].undergoing_init_from_other_pt /\ th[t].clears = 1)
          /\ (th[t].pc = "ret" /\ th[t].ret = "ok")
                => (~wsi[w].undergoing_init_from_other_pt /\ th[t].clears = 1)

\* A successful adoption is about to wake the owner, the flag already clear.
C6_Witness ==
    \E t \in Threads :
       /\ th[t].pc = "wake"
       /\ InTable(th[t].new_wsi)
       /\ ~wsi[th[t].new_wsi].undergoing_init_from_other_pt
       /\ th[t].clears = 1

\* A thread the selector must not pick: fds_count at or above C - 1.
Full(n) == fds_count(n) >= fd_limit_per_thread - 1

\* C7: lws_get_idlest_tsi returns the lowest-indexed thread among those with
\* the least fds_count over the threads that are not full; never a thread at
\* or above C - 1 fds while another thread has fewer; and -1 exactly when
\* every thread is full.
C7_SelectorPicksIdlest ==
    LET hit == lws_get_idlest_tsi
        open == {n \in Threads : ~Full(n)}
    IN /\ hit = -1 <=> open = {}
       /\ hit # -1
             => /\ hit \in open
                /\ \A n \in open : fds_count(hit) <= fds_count(n)
                /\ \A n \in open : fds_count(n) = fds_count(hit) => hit <= n
       /\ (hit # -1 /\ Full(hit))
             => \A n \in Threads : fds_count(n) >= fds_count(hit)

\* C8: under any interleaving of adopt calls and teardowns, once no call is
\* in flight count_wsi_allocated is the number of wsi allocated and not
\* freed.
C8_CounterExact ==
    (\A t \in Threads : th[t].pc = "idle")
       => count_wsi_allocated = Cardinality(Alive)

\* C9: with a ceiling L > 0 the live counter of a peer record never exceeds
\* L, whatever the interleaving of adoptions from that address.
C9_PeerWithinCeiling ==
    \A a \in Addrs : peers[a] <= ip_limit_wsi

\* The pcs at which adopt_socket_readbuf is about to write the pending
\* buffer list, the header context or the poll entry of its wsi, or to
\* service it.
RbWrites == {"rb_append", "rb_ah", "rb_revents", "rb_service"}

\* C10: adopt_socket_readbuf, running on the creating thread, never writes
\* a wsi's pending buffers or poll entry, nor services it, while the owning
\* thread's poll loop is servicing the same wsi.
C10_NoConcurrentMutation ==
    [][\A t \in Threads :
          (th[t].pc \in RbWrites /\ th'[t].pc # th[t].pc)
             => \A n \in Threads \ {t} : servicing[n] # th[t].new_wsi]_vars

\* The pcs of a creating call at which new_wsi, once installed, is live.
Installed == {"callback", "finish", "clear_init", "wake", "fail"}

ReadbufReturned(t) ==
    th[t].pc = "done" /\ th[t].api = "readbuf" /\ th[t].ret = "ok"

\* C12: when adopt_socket_readbuf is given N > 0 bytes read ahead and
\* returns a live wsi, the bytes have been handed to the protocol exactly
\* once or are queued on the wsi, once, ahead of anything read from the
\* descriptor later; they are never dropped, also not when the wsi's
\* position_in_fds_table is LWS_NO_FDS_POS at the time of the call.
C12_BytesDeliveredOnce ==
    \A t \in Threads :
       (ReadbufReturned(t) /\ th[t].rb # "none")
          => \/ th[t].rb = "delivered" /\ wsi[th[t].new_wsi].buflist = 0
             \/ th[t].rb = "queued" /\ wsi[th[t].new_wsi].buflist = 1

\* The call of C12's last case: bytes were given for a wsi that the TLS
\* handoff has not installed yet, and the live wsi came back.
C12_Witness ==
    \E t \in Threads :
       /\ ReadbufReturned(t)
       /\ th[t].tls
       /\ th[t].rb = "dropped"
       /\ ~InTable(th[t].new_wsi)

\* adopt_socket_readbuf has returned to thread t.
ReadbufDone(t) == th[t].pc = "done" /\ th[t].api = "readbuf"

AdoptedPlain(t) == th[t].pc = "ret" /\ th[t].ret = "ok" /\ ~th[t].tls

\* The wsi w sits in the poll table of thread n at its recorded position.
InTableOf(w, n) ==
    /\ InTable(w)
    /\ wsi[w].position_in_fds_table < fds_count(n)
    /\ fds[n][wsi[w].position_in_fds_table + 1] = w

\* No poll table holds a wsi.
ZeroLoad == \A n \in Threads : fds_count(n) = 0

\* What holds of a wsi returned on the non-TLS path, and of the thread a new
\* wsi is given.
C14_Returned ==
    \A t \in Threads :
       LET w == th[t].new_wsi
       IN /\ AdoptedPlain(t)
             => /\ wsi[w].alive
                /\ wsi[w].position_in_fds_table # LWS_NO_FDS_POS
                /\ \A n \in Threads : InTableOf(w, n) <=> n = wsi[w].tsi
                /\ \A n \in Threads : \A i \in 1 .. fds_count(n) :
                      fds[n][i] = w
                         => (n = wsi[w].tsi
                             /\ i = wsi[w].position_in_fds_table + 1)
                /\ ~wsi[w].undergoing_init_from_other_pt
                /\ count_wsi_allocated = th[t].pre + 1
          /\ (th[t].pc = "inc_rd" /\ th[t].parent = 0 /\ ZeroLoad)
                => wsi[w].tsi = 0
          /\ (th[t].pc = "inc_rd" /\ th[t].parent # 0)
                => wsi[w].tsi = wsi[th[t].parent].tsi

\* A step leaves the thread index of every wsi that stays allocated alone.
TsiKept ==
    \A w \in Slots : (wsi[w].alive /\ wsi'[w].alive) => wsi'[w].tsi = wsi[w].tsi

\* C14: a wsi lws_adopt_descriptor_vhost returns on the non-TLS path is in
\* the poll table of exactly its own thread tsi, at a position other than
\* LWS_NO_FDS_POS, with undergoing_init_from_other_pt clear and
\* count_wsi_allocated one above its value at entry; an adoption with no
\* parent made while every poll table is empty is given thread 0, one with a
\* parent the parent's thread; and tsi is never written after allocation.
C14_InstalledOnOwnThread == []C14_Returned /\ [][TsiKept]_vars

\* A wsi returned on the non-TLS path that lives on thread 1.
C14_Witness ==
    \E t \in Threads :
       /\ AdoptedPlain(t)
       /\ wsi[th[t].new_wsi].tsi = 1
       /\ InTableOf(th[t].new_wsi, 1)
       /\ count_wsi_allocated = th[t].pre + 1

\* The wsi w is an entry of some thread's poll table.
InSomeTable(w) ==
    \E n \in Threads : \E i \in 1 .. fds_count(n) : fds[n][i] = w

\* The wsi w is a member of the child list of p.
IsChildOf(w, p) ==
    p # 0 /\ \E i \in 1 .. Len(ChildList(p)) : ChildList(p)[i] = w

\* C15: when lws_adopt_descriptor_vhost has failed after it allocated a wsi,
\* that wsi is freed, in no thread's poll table and not in the child list of
\* the parent it was given, on bail and on fail, for files and for sockets.
C15_FailedSlotRetired ==
    \A t \in Threads :
       (AdoptFailed(t) /\ th[t].new_wsi # 0)
          => /\ ~wsi[th[t].new_wsi].alive
             /\ ~InSomeTable(th[t].new_wsi)
             /\ ~IsChildOf(th[t].new_wsi, th[t].parent)

\* A file adoption with a parent has failed on fail after the insertion: the
\* wsi is still allocated, in the poll table and in the parent's child list.
C15_Witness ==
    \E t \in Threads :
       /\ AdoptFailed(t)
       /\ ~th[t].sock
       /\ th[t].failat = "callback"
       /\ th[t].new_wsi # 0
       /\ wsi[th[t].new_wsi].alive
       /\ InSomeTable(th[t].new_wsi)
       /\ IsChildOf(th[t].new_wsi, th[t].parent)

\* The live wsi that are counted on peer record a.
PeerWsi(a) == {w \in Alive : wsi[w].peer = a}

\* C16: at the entry of bail the wsi is in no poll table and no peer record
\* counts it; after a socket adoption has failed on bail the peer record's
\* counter is what it was at entry; and an adoption is denied by the ceiling
\* only when live wsi of that address fill it.
C16_BailLeavesPeerRegistry ==
    \A t \in Threads :
       /\ th[t].pc = "bail"
             => /\ ~InSomeTable(th[t].new_wsi)
                /\ wsi[th[t].new_wsi].peer = 0
       /\ (AdoptFailed(t) /\ th[t].sock /\ th[t].failat \in PathA
              /\ th[t].peer # 0)
             => peers[th[t].peer] = th[t].peer_pre
       /\ (AdoptFailed(t) /\ th[t].failat = "denied")
             => Cardinality(PeerWsi(th[t].peer)) >= ip_limit_wsi

\* An adoption from an address with no live wsi is denied by the ceiling:
\* the counter was left raised by an adoption that failed on bail.
C16_Witness ==
    \E t \in Threads :
       /\ AdoptFailed(t)
       /\ th[t].failat = "denied"
       /\ PeerWsi(th[t].peer) = {}
       /\ peers[th[t].peer] >= ip_limit_wsi

\* The orders of steps of a successful adoption.
GoodOrders ==
    {<<"bind", x, "notify", "finish", "wake">> : x \in {"insert", "tls"}}

\* The steps taken when the callback is the one that failed.
RejectedOrders ==
    {<<"bind", x, "notify">> : x \in {"insert", "tls"}}

\* What holds of the order of steps on every path.
StepsInOrder ==
    \A t \in Threads :
       /\ (th[t].pc = "ret" /\ th[t].ret = "ok")
             => /\ th[t].trace \in GoodOrders
                /\ th[t].trace[2] = "tls" <=> th[t].tls
       /\ (th[t].rec /\ th[t].pc \in {"finish", "clear_init", "wake"})
             => th[t].failat = "none"
       /\ (th[t].failat = "callback" /\ th[t].pc = "fail")
             => th[t].trace \in RejectedOrders
       /\ (th[t].failat = "callback" /\ th[t].pc = "ret")
             => /\ th[t].ret = "fail"
                /\ th[t].trace \in {Append(o, "fail") : o \in RejectedOrders}

Occurrences(w, p) ==
    Cardinality({i \in 1 .. Len(ChildList(p)) : ChildList(p)[i] = w})

\* The wsi w is between the two writes that link it, or past the write that
\* unlinks it, in a call still in flight.
InLinkage(w) ==
    \E t \in Threads :
       th[t].new_wsi = w /\ th[t].pc \in {"link_wr", "bail", "dec_rd", "dec_wr"}

\* C18: every live wsi with a parent is in that parent's child list exactly
\* once, every member of a child list is a live child of that parent, and
\* so unwinding one child drops no sibling and leaves no freed wsi linked,
\* concurrent adoptions under one parent included.
C18_ChildListExact ==
    /\ \A w \in Alive :
          (wsi[w].parent # 0 /\ ~InLinkage(w))
             => Occurrences(w, wsi[w].parent) = 1
    /\ \A p \in Alive : \A i \in 1 .. Len(ChildList(p)) :
          /\ wsi[ChildList(p)[i]].alive
          /\ wsi[ChildList(p)[i]].parent = p

\* A live child, installed and returned, that its parent's child list has
\* lost.
C18_Witness ==
    \E w \in Alive :
       /\ wsi[w].parent # 0
       /\ InTable(w)
       /\ \A t \in Threads : th[t].new_wsi # w
       /\ Occurrences(w, wsi[w].parent) = 0

\* Thread t holds the lock of thread n's pt.
Holds(t, n) == pt_lock[n] = t + 1

\* What holds of the pt locks in every state: a lock is held only by a
\* thread that is at the insertion into that very table, a thread at the
\* insertion holds the lock of its wsi's thread, the tables are as the wsi
\* say, and no two threads are at the insertion into one table.
LockOnlyAroundInsert ==
    /\ \A t \in Threads : \A n \in Threads :
          Holds(t, n) => (th[t].pc = "insert" /\ wsi[th[t].new_wsi].tsi = n)
    /\ \A t \in Threads :
          th[t].pc = "insert" => Holds(t, wsi[th[t].new_wsi].tsi)
    /\ \A n \in Threads : pt_lock[n] \in 0 .. count_threads
    /\ \A t \in Threads : \A u \in Threads \ {t} :
          (th[t].pc = "insert" /\ th[u].pc = "insert")
             => wsi[th[t].new_wsi].tsi # wsi[th[u].new_wsi].tsi

\* C19: on the non-TLS path the pt lock of the owning thread is held by the
\* creating thread exactly around __insert_wsi_socket_into_fds, it is
\* released whether the insertion succeeds or fails and is never held at a
\* callback, in fail, in bail or at the return, no two insertions into one
\* table overlap, and a thread waiting for the lock always gets it.
C19_LockAroundInsertOnly ==
    /\ []LockOnlyAroundInsert
    /\ \A t \in Threads : (th[t].pc = "lock") ~> (th[t].pc = "insert")

\* A thread waits for the pt lock that another thread holds for its own
\* insertion into the same table.
C19_Witness ==
    \E t \in Threads : \E u \in Threads \ {t} :
       /\ th[t].pc = "lock"
       /\ th[u].pc = "insert"
       /\ Holds(u, wsi[th[t].new_wsi].tsi)

\* C20: no poll table ever holds more than fd_limit_per_thread wsi; an
\* adoption that meets a full table fails at the insertion and leaves
\* through fail; and the selector never returns a thread whose fds_count
\* has passed fd_limit_per_thread - 1.
C20_WithinCapacityAndNotPicked ==
    /\ \A n \in Threads : fds_count(n) <= fd_limit_per_thread
    /\ \A t \in Threads :
          (th[t].pc \in {"callback", "finish", "clear_init", "wake"}
              /\ ~th[t].tls)
             => InTableOf(th[t].new_wsi, wsi[th[t].new_wsi].tsi)
    /\ \A t \in Threads :
          (AdoptFailed(t) /\ th[t].failat = "insert")
             => th[t].trace = <<"bind", "fail">>
    /\ \A n \in Threads :
          fds_count(n) > fd_limit_per_thread - 1 => lws_get_idlest_tsi # n

\* An adoption with a parent has filled its parent's table, and the selector
\* returns that thread for the next adoption.
C20_Witness ==
    \E w \in Alive :
       /\ wsi[w].parent # 0
       /\ InTableOf(w, wsi[w].tsi)
       /\ fds_count(wsi[w].tsi) = fd_limit_per_thread
       /\ lws_get_idlest_tsi = wsi[w].tsi
====
